---- MODULE Spec2Model ----
(***************************************************************************)
(* Inventory service (src/main.js): an in-memory array of item records,    *)
(* written whole to inventory.json by every mutating handler, and a        *)
(* directory of photo files written by multer before a handler runs and    *)
(* removed by unawaited fs.promises.unlink calls.                          *)
(*                                                                         *)
(* JavaScript strings are sequences of one-character strings, so that      *)
(* trim, String and Number are computed and not assumed.  A request body   *)
(* is a function whose domain is the set of fields the client sent: a      *)
(* field outside the domain is `undefined'.  A multer file name is an      *)
(* opaque unique token, represented by the ordinal of the upload; Null     *)
(* (0) is the JavaScript null of photoFilename.                            *)
(***************************************************************************)
EXTENDS Integers, Sequences, FiniteSets, TLC

VARIABLES
    inventory,   \* the array `inventory' (main.js:42)
    dbFile,      \* content of DB_FILE, inventory.json
    photos,      \* files of PHOTOS_DIR: file name -> bytes
    reqs,        \* requests whose upload.single('photo') stage has stored a file, handler not yet run
    unlinks,     \* file names with an unawaited fs.promises.unlink in progress
    sends,       \* res.sendFile transfers started and not yet completed
    nextFile,    \* ordinal of the next multer file name
    last,        \* the response (or internal event) of the last step
    issued,      \* history: ids returned by successful registers
    deleted,     \* history: <<id, file>> of records with a photo removed by a successful delete
    uploaded,    \* history: id -> bytes most recently uploaded for it by register / photo PUT
    faults       \* number of writes of DB_FILE that failed so far

vars == <<inventory, dbFile, photos, reqs, unlinks, sends, nextFile, last,
          issued, deleted, uploaded, faults>>

----------------------------------------------------------------------------
(* Bounds *)
MaxId == 2          \* register is not offered once genId would exceed it
MaxPlainId == 3     \* the same, in a behaviour that uploads no file
MaxUploads == 2     \* number of files multer stores in one behaviour
MaxInflight == 1    \* requests between their upload stage and their handler
MaxSends == 1       \* sendFile transfers in progress
MaxFaults == 1      \* writes of DB_FILE that fail in one behaviour

Null == 0
NullUrl == <<>>

Names == { <<>>, <<" ">>, <<"W">> }
\* PUT /inventory/:id never inspects the name it stores: one blank name stands
\* for the empty one as well
PatchNames == Names \ { <<>> }
Descriptions == { <<"x">> }
\* file contents; they are interchangeable, so the n-th upload of a behaviour
\* draws from the first n of them
Contents == << <<"FF", "D8">>, <<"89", "50">> >>
Bytes(n) == { Contents[k] : k \in { k \in DOMAIN Contents : k <= n } }

\* req.body: the fields the client sent, each with its value
BodiesOver(names) ==
    UNION { { b \in [D -> names \cup Descriptions] :
                \A k \in D : b[k] \in (IF k = "inventory_name" THEN names ELSE Descriptions) } :
            D \in SUBSET {"inventory_name", "description"} }

RegisterBodies == BodiesOver(Names)
UpdateBodies == BodiesOver(PatchNames)
NoBody == <<>>

----------------------------------------------------------------------------
(* JavaScript primitives *)
Digits == <<"0", "1", "2", "3", "4", "5", "6", "7", "8", "9">>

DigitVal(c) == (CHOOSE d \in 1..10 : Digits[d] = c) - 1

RECURSIVE String(_)
String(n) == IF n < 10 THEN <<Digits[n + 1]>>
             ELSE String(n \div 10) \o <<Digits[(n % 10) + 1]>>

RECURSIVE Number(_)
Number(s) == IF s = <<>> THEN 0
             ELSE Number(SubSeq(s, 1, Len(s) - 1)) * 10 + DigitVal(s[Len(s)])

IsSpace(c) == c \in {" ", "\t", "\n"}

RECURSIVE trimStart(_)
trimStart(s) == IF s # <<>> /\ IsSpace(Head(s)) THEN trimStart(Tail(s)) ELSE s

RECURSIVE trimEnd(_)
trimEnd(s) == IF s # <<>> /\ IsSpace(s[Len(s)])
              THEN trimEnd(SubSeq(s, 1, Len(s) - 1)) ELSE s

trim(s) == trimEnd(trimStart(s))

Range(s) == { s[i] : i \in DOMAIN s }

MathMax(S) == CHOOSE m \in S : \A x \in S : x <= m

\* request ids: the ids the service can issue
ReqIds == { String(n) : n \in 1..(IF MaxPlainId > MaxId THEN MaxPlainId ELSE MaxId) }

----------------------------------------------------------------------------
(* Persistence *)
ItemKeys == <<"id", "inventory_name", "description", "photoFilename">>

\* JSON.stringify(inventory, null, 2): an array of objects, each the list of
\* its own properties in insertion order
stringify(inv) ==
    [i \in 1..Len(inv) |-> [k \in 1..Len(ItemKeys) |-> <<ItemKeys[k], inv[i][ItemKeys[k]]>>]]

parse(text) ==
    [i \in 1..Len(text) |->
        [key \in Range(ItemKeys) |->
            (CHOOSE p \in Range(text[i]) : p[1] = key)[2]]]

\* DB_FILE: whether it exists, the objects its text holds, and whether the
\* text is closed (a write that broke off leaves a text JSON.parse rejects)
Absent == [exists |-> FALSE, closed |-> FALSE, text |-> <<>>]

Torn == [exists |-> TRUE, closed |-> FALSE, text |-> <<>>]

\* a start that does not read the snapshot
loadNothing(file) == <<>>

loadInventory(file) == IF file.exists /\ file.closed THEN parse(file.text) ELSE <<>>

\* a write that leaves out the record added last
saveWithoutLast(inv) ==
    [exists |-> TRUE, closed |-> TRUE,
     text |-> stringify(IF inv = <<>> THEN inv ELSE SubSeq(inv, 1, Len(inv) - 1))]

saveInventory(inv) == [exists |-> TRUE, closed |-> TRUE, text |-> stringify(inv)]

\* fs.writeFileSync: the file written, or an exception that leaves the file
\* as it was (it could not be opened) or cut off (the write broke off)
Outcomes == {"written", "refused", "torn"}

writeFileSync(file, inv, outcome) ==
    IF outcome = "written" THEN saveInventory(inv)
    ELSE IF outcome = "refused" THEN file
    ELSE Torn

\* the answer of a handler whose saveInventory() threw: Express answers 500
Thrown(op, id, arg, file) ==
    [op |-> op, id |-> id, arg |-> arg, status |-> 500,
     body |-> [error |-> "Internal Server Error"], file |-> file, bytes |-> <<>>]

----------------------------------------------------------------------------
(* Helpers of the handlers *)
\* genId numbering by position instead of by maximum
genIdByLength(inv) == String(Len(inv) + 1)

genId(inv) == String(MathMax({0} \cup { Number(inv[i].id) : i \in DOMAIN inv }) + 1)

\* a findIndex whose -1 is used as an index: splice(-1, 1) removes the last record
findIndexOrLast(inv, id) ==
    IF \E i \in DOMAIN inv : inv[i].id = id
    THEN CHOOSE i \in DOMAIN inv : inv[i].id = id /\ \A j \in 1..(i - 1) : inv[j].id # id
    ELSE Len(inv)

\* index of the first record with that id, 0 when there is none
findIndex(inv, id) ==
    IF \E i \in DOMAIN inv : inv[i].id = id
    THEN CHOOSE i \in DOMAIN inv : inv[i].id = id /\ \A j \in 1..(i - 1) : inv[j].id # id
    ELSE 0

\* a lookup that falls back to the first record
findItemOrFirst(inv, id) ==
    IF \E i \in DOMAIN inv : inv[i].id = id
    THEN CHOOSE i \in DOMAIN inv : inv[i].id = id /\ \A j \in 1..(i - 1) : inv[j].id # id
    ELSE IF inv # <<>> THEN 1 ELSE 0

findItem(inv, id) == findIndex(inv, id)

photoUrl(item) ==
    IF item.photoFilename # Null
    THEN <<"/inventory/">> \o item.id \o <<"/photo">>
    ELSE NullUrl

dto(item) == [id |-> item.id, inventory_name |-> item.inventory_name,
              description |-> item.description, photo_url |-> photoUrl(item)]

\* splice removing the first record whatever the index
spliceFirst(inv, index) == Tail(inv)

\* a removal that moves the last record into the gap
spliceSwapLast(inv, index) ==
    [i \in 1..(Len(inv) - 1) |-> IF i = index THEN inv[Len(inv)] ELSE inv[i]]

splice(inv, index) == [i \in 1..(Len(inv) - 1) |-> IF i < index THEN inv[i] ELSE inv[i + 1]]

\* a handler that forgets to remove the file
unlinkNothing(file) == {}

unlinkOf(file) == IF file # Null THEN {file} ELSE {}

\* what a step leaves in `last': the request (op, id, arg), the response
\* (status, body, bytes) and the photo file the step was about
Resp(op, id, arg, status, body, file, bytes) ==
    [op |-> op, id |-> id, arg |-> arg, status |-> status, body |-> body,
     file |-> file, bytes |-> bytes]

Internal(op, file) == Resp(op, <<>>, NoBody, 0, <<>>, file, <<>>)

Referenced(inv) == { inv[i].photoFilename : i \in DOMAIN inv } \ {Null}

----------------------------------------------------------------------------
Init ==
    /\ dbFile = Absent
    /\ inventory = loadInventory(Absent)
    /\ photos = <<>>
    /\ reqs = {}
    /\ unlinks = {}
    /\ sends = {}
    /\ nextFile = 1
    /\ last = Internal("start", Null)
    /\ issued = {}
    /\ deleted = {}
    /\ uploaded = <<>>
    /\ faults = 0

----------------------------------------------------------------------------
(* The record each handler builds or rewrites *)

\* main.js:97  !inventory_name || !inventory_name.trim()
nameMissing(body) ==
    \/ "inventory_name" \notin DOMAIN body
    \/ body.inventory_name = <<>>
    \/ trim(body.inventory_name) = <<>>

\* main.js:95, 101-106  the record register appends
newItem(inv, body, file) ==
    [id |-> genId(inv),
     inventory_name |-> body.inventory_name,
     description |-> IF "description" \in DOMAIN body THEN body.description ELSE <<>>,
     photoFilename |-> file]

\* a PUT that replaces the description also when the body omits it
applyPatchDefaulting(item, body) ==
    [item EXCEPT
        !.inventory_name = IF "inventory_name" \in DOMAIN body THEN body.inventory_name ELSE @,
        !.description = IF "description" \in DOMAIN body THEN body.description ELSE <<>>]

\* main.js:133-136  the fields PUT /inventory/:id assigns
applyPatch(item, body) ==
    [item EXCEPT
        !.inventory_name = IF "inventory_name" \in DOMAIN body THEN body.inventory_name ELSE @,
        !.description = IF "description" \in DOMAIN body THEN body.description ELSE @]

\* a photo PUT that keeps the reference a record already has
withFirstPhoto(item, file) ==
    IF item.photoFilename # Null THEN item ELSE [item EXCEPT !.photoFilename = file]

\* a photo PUT that clears the reference
withoutPhoto(item, file) == [item EXCEPT !.photoFilename = Null]

\* main.js:179  item.photoFilename = req.file.filename
withPhoto(item, file) == [item EXCEPT !.photoFilename = file]

\* a request as its handler receives it: one that went through multer's file
\* stage, or one that carried no file part
\* the largest id register may issue in the current state
IdLimit == IF nextFile = 1 THEN MaxPlainId ELSE MaxId

\* the request ids offered in the current state
Offered == { id \in ReqIds : Number(id) <= IdLimit }

Arrived(route) == { r \in reqs : r.route = route } \cup { [route |-> route, file |-> Null] }

----------------------------------------------------------------------------
(* upload.single('photo'): multer stores the file part under a fresh name  *)
(* before the route handler is called.  Nothing reads the other fields of  *)
(* the request before the handler does, so they are drawn there.           *)
Upload(route, bytes) ==
    /\ nextFile <= MaxUploads
    /\ Cardinality(reqs) < MaxInflight
    /\ \A id \in issued : Number(id) <= MaxId
    /\ photos' = (nextFile :> bytes) @@ photos
    /\ reqs' = reqs \cup {[route |-> route, file |-> nextFile]}
    /\ nextFile' = nextFile + 1
    /\ last' = Internal("upload", nextFile)
    /\ UNCHANGED <<faults, inventory, dbFile, unlinks, sends, issued, deleted, uploaded>>

(* POST /register *)
RegisterW(req, body, outcome) ==
    /\ IF outcome = "written" THEN TRUE ELSE faults < MaxFaults
    /\ req \in Arrived("register")
    /\ reqs' = reqs \ {req}
    /\ IF nameMissing(body)
       THEN /\ last' = Resp("register", <<>>, NoBody, 400, [error |-> "inventory_name is required"],
                            req.file, <<>>)
            /\ UNCHANGED <<faults, inventory, dbFile, photos, unlinks, sends, nextFile,
                           issued, deleted, uploaded>>
       ELSE LET item == newItem(inventory, body, req.file) IN
            /\ Number(item.id) <= IdLimit
            /\ inventory' = Append(inventory, item)
            /\ dbFile' = writeFileSync(dbFile, inventory', outcome)
            /\ IF outcome = "written"
               THEN /\ last' = Resp("register", item.id, NoBody, 201, dto(item), req.file, <<>>)
                    /\ issued' = issued \cup {item.id}
                    /\ uploaded' = IF req.file # Null
                                   THEN (item.id :> photos[req.file]) @@ uploaded
                                   ELSE uploaded
               ELSE /\ last' = Thrown("register", <<>>, NoBody, req.file)
                    /\ UNCHANGED <<faults, issued, uploaded>>
            /\ faults' = IF outcome = "written" THEN faults ELSE faults + 1
            /\ UNCHANGED <<photos, unlinks, sends, nextFile, deleted>>

Register(req, body) == RegisterW(req, body, "written")

(* GET /inventory *)
List ==
    /\ last' = Resp("list", <<>>, NoBody, 200, [i \in 1..Len(inventory) |-> dto(inventory[i])],
                    Null, <<>>)
    /\ UNCHANGED <<faults, inventory, dbFile, photos, reqs, unlinks, sends, nextFile,
                   issued, deleted, uploaded>>

(* GET /inventory/:id *)
Get(id) ==
    /\ LET index == findItem(inventory, id) IN
         last' = IF index = 0
                 THEN Resp("get", id, NoBody, 404, [error |-> "Not found"], Null, <<>>)
                 ELSE Resp("get", id, NoBody, 200, dto(inventory[index]), Null, <<>>)
    /\ UNCHANGED <<faults, inventory, dbFile, photos, reqs, unlinks, sends, nextFile,
                   issued, deleted, uploaded>>

(* PUT /inventory/:id *)
UpdateW(id, body, outcome) ==
    /\ IF outcome = "written" THEN TRUE ELSE faults < MaxFaults
    /\ LET index == findItem(inventory, id) IN
       IF index = 0
       THEN /\ last' = Resp("update", id, body, 404, [error |-> "Not found"], Null, <<>>)
            /\ UNCHANGED <<faults, inventory, dbFile, photos, reqs, unlinks, sends, nextFile,
                           issued, deleted, uploaded>>
       ELSE /\ inventory' = [inventory EXCEPT ![index] = applyPatch(@, body)]
            /\ dbFile' = writeFileSync(dbFile, inventory', outcome)
            /\ last' = IF outcome = "written"
                       THEN Resp("update", id, body, 200, dto(inventory'[index]), Null, <<>>)
                       ELSE Thrown("update", id, body, Null)
            /\ faults' = IF outcome = "written" THEN faults ELSE faults + 1
            /\ UNCHANGED <<photos, reqs, unlinks, sends, nextFile, issued, deleted, uploaded>>

Update(id, body) == UpdateW(id, body, "written")

(* DELETE /inventory/:id *)
DeleteW(id, outcome) ==
    /\ IF outcome = "written" THEN TRUE ELSE faults < MaxFaults
    /\ LET index == findIndex(inventory, id) IN
       IF index = 0
       THEN /\ last' = Resp("delete", id, NoBody, 404, [error |-> "Not found"], Null, <<>>)
            /\ UNCHANGED <<faults, inventory, dbFile, photos, reqs, unlinks, sends, nextFile,
                           issued, deleted, uploaded>>
       ELSE LET removed == inventory[index] IN
            /\ inventory' = splice(inventory, index)
            /\ unlinks' = unlinks \cup unlinkOf(removed.photoFilename)
            /\ dbFile' = writeFileSync(dbFile, inventory', outcome)
            /\ last' = IF outcome = "written"
                       THEN Resp("delete", id, NoBody, 200, [message |-> "Deleted"],
                                 removed.photoFilename, <<>>)
                       ELSE Thrown("delete", id, NoBody, removed.photoFilename)
            /\ deleted' = IF outcome = "written" /\ removed.photoFilename # Null
                          THEN deleted \cup {<<id, removed.photoFilename>>}
                          ELSE deleted
            /\ faults' = IF outcome = "written" THEN faults ELSE faults + 1
            /\ UNCHANGED <<photos, reqs, sends, nextFile, issued, uploaded>>

Delete(id) == DeleteW(id, "written")

(* GET /inventory/:id/photo: the handler, up to the call of sendFile *)
GetPhoto(id) ==
    LET index == findItem(inventory, id) IN
    IF \/ index = 0
       \/ inventory[index].photoFilename = Null
       \/ inventory[index].photoFilename \notin DOMAIN photos
    THEN /\ last' = Resp("getPhoto", id, NoBody, 404, <<"Not found">>, Null, <<>>)
         /\ UNCHANGED <<faults, inventory, dbFile, photos, reqs, unlinks, sends, nextFile,
                        issued, deleted, uploaded>>
    ELSE /\ Cardinality(sends) < MaxSends
         /\ sends' = sends \cup {[id |-> id, file |-> inventory[index].photoFilename]}
         /\ last' = Internal("sendFile", inventory[index].photoFilename)
         /\ UNCHANGED <<faults, inventory, dbFile, photos, reqs, unlinks, nextFile,
                        issued, deleted, uploaded>>

(* res.sendFile opens and streams the file after the handler has returned; *)
(* a file removed in between makes the transfer end in 404                 *)
SendFile(s) ==
    /\ s \in sends
    /\ sends' = sends \ {s}
    /\ last' = IF s.file \in DOMAIN photos
               THEN Resp("getPhoto", s.id, NoBody, 200, <<>>, s.file, photos[s.file])
               ELSE Resp("getPhoto", s.id, NoBody, 404, <<"Not found">>, s.file, <<>>)
    /\ UNCHANGED <<faults, inventory, dbFile, photos, reqs, unlinks, nextFile,
                   issued, deleted, uploaded>>

(* PUT /inventory/:id/photo *)
SetPhotoW(req, id, outcome) ==
    /\ IF outcome = "written" THEN TRUE ELSE faults < MaxFaults
    /\ req \in Arrived("photo")
    /\ reqs' = reqs \ {req}
    /\ LET index == findItem(inventory, id) IN
       IF index = 0
       THEN /\ last' = Resp("setPhoto", id, NoBody, 404, [error |-> "Not found"], req.file, <<>>)
            /\ UNCHANGED <<faults, inventory, dbFile, photos, unlinks, sends, nextFile,
                           issued, deleted, uploaded>>
       ELSE IF req.file = Null
       THEN /\ last' = Resp("setPhoto", id, NoBody, 400, [error |-> "photo file is required"],
                            req.file, <<>>)
            /\ UNCHANGED <<faults, inventory, dbFile, photos, unlinks, sends, nextFile,
                           issued, deleted, uploaded>>
       ELSE /\ unlinks' = unlinks \cup unlinkOf(inventory[index].photoFilename)
            /\ inventory' = [inventory EXCEPT ![index] = withPhoto(@, req.file)]
            /\ dbFile' = writeFileSync(dbFile, inventory', outcome)
            /\ IF outcome = "written"
               THEN /\ last' = Resp("setPhoto", id, NoBody, 200,
                                    [id |-> inventory'[index].id,
                                     photo_url |-> photoUrl(inventory'[index]),
                                     message |-> "Photo updated",
                                     old |-> inventory[index].photoFilename],
                                    req.file, <<>>)
                    /\ uploaded' = (id :> photos[req.file]) @@ uploaded
               ELSE /\ last' = Thrown("setPhoto", id, NoBody, req.file)
                    /\ UNCHANGED uploaded
            /\ faults' = IF outcome = "written" THEN faults ELSE faults + 1
            /\ UNCHANGED <<photos, sends, nextFile, issued, deleted>>

SetPhoto(req, id) == SetPhotoW(req, id, "written")

(* fs.promises.unlink(...).catch(() => {}): the removal completes some time *)
(* after the handler, or fails and the failure is dropped                  *)
UnlinkDone(f) ==
    /\ f \in unlinks
    /\ f \in DOMAIN photos
    /\ photos' = [g \in DOMAIN photos \ {f} |-> photos[g]]
    /\ unlinks' = unlinks \ {f}
    /\ last' = Internal("unlink", f)
    /\ UNCHANGED <<faults, inventory, dbFile, reqs, sends, nextFile, issued, deleted, uploaded>>

\* an unlink whose rejection is not caught: the process ends and is started again
UnlinkFailCrash(f) ==
    /\ f \in unlinks
    /\ unlinks' = {}
    /\ reqs' = {}
    /\ sends' = {}
    /\ inventory' = loadInventory(dbFile)
    /\ last' = Internal("unlinkFailed", f)
    /\ UNCHANGED <<faults, dbFile, photos, nextFile, issued, deleted, uploaded>>

UnlinkFail(f) ==
    /\ f \in unlinks
    /\ unlinks' = unlinks \ {f}
    /\ last' = Internal("unlinkFailed", f)
    /\ UNCHANGED <<faults, inventory, dbFile, photos, reqs, sends, nextFile,
                   issued, deleted, uploaded>>

Next ==
    \/ \E route \in {"register", "photo"}, bytes \in Bytes(nextFile) : Upload(route, bytes)
    \/ \E req \in Arrived("register"), body \in RegisterBodies : Register(req, body)
    \/ List
    \/ \E id \in Offered : Get(id)
    \/ \E id \in Offered, body \in UpdateBodies : Update(id, body)
    \/ \E id \in Offered : Delete(id)
    \/ \E id \in Offered : GetPhoto(id)
    \/ \E s \in sends : SendFile(s)
    \/ \E req \in Arrived("photo"), id \in Offered : SetPhoto(req, id)
    \/ \E f \in unlinks : UnlinkDone(f)
    \/ \E f \in unlinks : UnlinkFail(f)

Spec == Init /\ [][Next]_vars

----------------------------------------------------------------------------
(* The same service on a disk that can refuse or cut off a write, and a     *)
(* process that can be stopped and started again.  A start reads DB_FILE;   *)
(* the requests, transfers and unlinks of the old process are gone, the     *)
(* files stay.                                                             *)
Restart ==
    /\ inventory' = loadInventory(dbFile)
    /\ reqs' = {}
    /\ unlinks' = {}
    /\ sends' = {}
    /\ last' = Internal("restart", Null)
    /\ UNCHANGED <<dbFile, photos, nextFile, issued, deleted, uploaded, faults>>

FailBodies == BodiesOver({<<"W">>})

NextFail ==
    \/ \E route \in {"register", "photo"}, bytes \in Bytes(nextFile) : Upload(route, bytes)
    \/ \E req \in Arrived("register"), body \in FailBodies, outcome \in Outcomes :
          RegisterW(req, body, outcome)
    \/ \E id \in Offered, body \in FailBodies, outcome \in Outcomes : UpdateW(id, body, outcome)
    \/ \E id \in Offered, outcome \in Outcomes : DeleteW(id, outcome)
    \/ \E req \in Arrived("photo"), id \in Offered, outcome \in Outcomes :
          SetPhotoW(req, id, outcome)
    \/ \E f \in unlinks : UnlinkDone(f)
    \/ \E f \in unlinks : UnlinkFail(f)
    \/ Restart

SpecFail == Init /\ [][NextFail]_vars

----------------------------------------------------------------------------
(* Properties *)

AtRest == reqs = {} /\ unlinks = {} /\ sends = {}

HasRecord(id) == findIndex(inventory, id) # 0

Record(id) == inventory[findIndex(inventory, id)]

UniqueIds(inv) == \A i, j \in DOMAIN inv : inv[i].id = inv[j].id => i = j

\* C1: once every started request and every started unlink has completed,
\* each file of the photo directory is referenced by some record (no orphaned
\* asset at rest), failed requests included.
NoOrphanAtRest == AtRest => DOMAIN photos \subseteq Referenced(inventory)

\* C2: every non-null photo reference names a file that exists and that no
\* unlink is removing, and no two records reference the same file.
PhotoReferencesResolve ==
    /\ \A i \in DOMAIN inventory :
          inventory[i].photoFilename # Null =>
              /\ inventory[i].photoFilename \in DOMAIN photos
              /\ inventory[i].photoFilename \notin unlinks
    /\ \A i, j \in DOMAIN inventory :
          (i # j /\ inventory[i].photoFilename # Null) =>
              inventory[i].photoFilename # inventory[j].photoFilename

\* a record keeps its photo while another record's old photo is being removed
\* or the photo of a deleted neighbour has just been removed
ReferenceSurvivesUnlink ==
    /\ last.op = "unlink"
    /\ last.file \notin DOMAIN photos
    /\ Referenced(inventory) # {}

\* C3: a register never returns an id that an earlier register returned,
\* also after the record that held it was deleted.
IdsNeverReused ==
    [][(last'.op = "register" /\ last'.status = 201) => last'.id \notin issued]_vars

\* C4: the ids of the records present are pairwise different, and a successful
\* register returns, and stores in the record it appends, the decimal string
\* of 1 + the largest numeric id present when it is called ("1" when there is
\* none), which is greater than every id present.
RegisterReturnsMaxPlusOne ==
    [][/\ UniqueIds(inventory')
       /\ (last'.op = "register" /\ last'.status = 201) =>
            LET present == { Number(inventory[i].id) : i \in DOMAIN inventory }
                new == last'.body.id
            IN  /\ Len(inventory') = Len(inventory) + 1
                /\ inventory'[Len(inventory')].id = new
                /\ new = String(Number(new))
                /\ \A n \in present : Number(new) > n
                /\ IF present = {} THEN new = <<"1">> ELSE Number(new) - 1 \in present
      ]_vars

\* a register made while a record is present got the next id
RegisteredSecond ==
    /\ last.op = "register" /\ last.status = 201
    /\ last.body.id = <<"2">>
    /\ Len(inventory) = 2

\* C5: a register answered 400 (missing, empty or blank name) leaves the
\* records and the snapshot as they were and leaves no file of its own in the
\* photo directory, also when it carried a photo.
BlankRegisterCreatesNothing ==
    [][(last'.op = "register" /\ last'.status = 400) =>
          /\ inventory' = inventory
          /\ dbFile' = dbFile
          /\ (last'.file = Null \/ last'.file \notin DOMAIN photos')
      ]_vars

\* C6: after a successful delete of a record with a photo, no record answers
\* to that id again, and the file it referenced is gone once its unlink is no
\* longer in progress.
DeletedStaysGone ==
    \A d \in deleted :
        /\ ~HasRecord(d[1])
        /\ (d[2] \notin unlinks => d[2] \notin DOMAIN photos)

\* C7: a photo GET for a record that is present and references the file the
\* GET is about never answers 404: it delivers the bytes most recently
\* uploaded for that id by register or by a successful photo PUT.
GetPhotoReturnsLastUpload ==
    (/\ last.op = "getPhoto"
     /\ HasRecord(last.id)
     /\ Record(last.id).photoFilename # Null
     /\ last.file \in {Null, Record(last.id).photoFilename})
    => /\ last.status = 200
       /\ last.id \in DOMAIN uploaded
       /\ last.bytes = uploaded[last.id]

\* the photo was replaced, the old file removed, and the GET delivered the
\* second upload
GotReplacedPhoto ==
    /\ last.op = "getPhoto" /\ last.status = 200
    /\ last.file = 2
    /\ 1 \notin DOMAIN photos
    /\ HasRecord(last.id)
    /\ Record(last.id).photoFilename = 2
    /\ last.bytes = photos[2]

UpdateChangesOnlyPatched ==
    [][(last'.op = "update" /\ last'.status = 200) =>
          LET i == findIndex(inventory, last'.id)
              patch == last'.arg
          IN  /\ i # 0
              /\ Len(inventory') = Len(inventory)
              /\ \A j \in DOMAIN inventory : j # i => inventory'[j] = inventory[j]
              /\ inventory'[i].id = inventory[i].id
              /\ inventory'[i].photoFilename = inventory[i].photoFilename
              /\ inventory'[i].inventory_name =
                    IF "inventory_name" \in DOMAIN patch THEN patch.inventory_name
                    ELSE inventory[i].inventory_name
              /\ inventory'[i].description =
                    IF "description" \in DOMAIN patch THEN patch.description
                    ELSE inventory[i].description
              /\ (DOMAIN patch = {} => inventory' = inventory)
              /\ last'.body = dto(inventory'[i])
              /\ photos' = photos /\ unlinks' = unlinks
      ]_vars

\* the second of two records, holding a photo, got a new description only
UpdatedDescriptionOnly ==
    /\ last.op = "update" /\ last.status = 200
    /\ DOMAIN last.arg = {"description"}
    /\ Len(inventory) = 2
    /\ last.id = inventory[2].id
    /\ inventory[2].inventory_name = <<"W">>
    /\ inventory[2].description = <<"x">>
    /\ inventory[2].photoFilename # Null

\* C10: a record that has a photo has one in the next state too, unless the
\* step deleted it.
PhotoNeverRemoved ==
    [][\A id \in ReqIds :
          (/\ findIndex(inventory, id) # 0
           /\ findIndex(inventory', id) # 0
           /\ inventory[findIndex(inventory, id)].photoFilename # Null)
          => inventory'[findIndex(inventory', id)].photoFilename # Null
      ]_vars

\* a photo PUT without a file was refused on a record that has a photo and
\* has been updated
PhotoKeptThroughFailedPut ==
    /\ last.op = "setPhoto" /\ last.status = 400
    /\ Record(last.id).photoFilename # Null
    /\ Record(last.id).description = <<"x">>

Present(inv, id) == \E i \in DOMAIN inv : inv[i].id = id

\* the snapshot file holds exactly the records of inv, field by field
Holds(file, inv) ==
    /\ file.exists /\ file.closed
    /\ Len(file.text) = Len(inv)
    /\ \A i \in DOMAIN inv : \A k \in DOMAIN ItemKeys :
          file.text[i][k] = <<ItemKeys[k], inv[i][ItemKeys[k]]>>

\* C11: a delete of an id that no record has answers 404 and leaves the
\* records, their order, the snapshot, the photo files and the started
\* unlinks as they were, so the same delete repeated answers 404 again; a
\* delete answers 404 only for such an id.
DeleteAbsentChangesNothing ==
    [][(last'.op = "delete") =>
          /\ (last'.status = 404) = ~Present(inventory, last'.id)
          /\ (last'.status = 404) =>
                /\ inventory' = inventory
                /\ dbFile' = dbFile
                /\ photos' = photos
                /\ unlinks' = unlinks
                /\ ~Present(inventory', last'.id)
      ]_vars

\* the id of a record deleted earlier is deleted again while another record
\* is present
DeletedTwice ==
    /\ last.op = "delete" /\ last.status = 404
    /\ \E d \in deleted : d[1] = last.id
    /\ Len(inventory) = 1

\* C14 as stated: a photo GET changes nothing, and it answers 404 only when,
\* as it answers, no record has the id, the record has no photo reference or
\* the referenced file is missing; otherwise it delivers the bytes of the
\* file it read.
PhotoNotFoundOnlyWhenMissing ==
    [][(last'.op = "getPhoto") =>
          /\ inventory' = inventory /\ dbFile' = dbFile /\ photos' = photos
          /\ (last'.status = 404) =>
                \/ ~Present(inventory, last'.id)
                \/ \E i \in DOMAIN inventory :
                      /\ inventory[i].id = last'.id
                      /\ \/ inventory[i].photoFilename = Null
                         \/ inventory[i].photoFilename \notin DOMAIN photos
          /\ (last'.status = 200) => last'.bytes = photos[last'.file]
      ]_vars

\* C15: a photo PUT for an id no record has answers 404, one without a file
\* for a present id answers 400, and a PUT answered 400 or 404 leaves every
\* record, the snapshot, the photo files and the started unlinks as they
\* were.
FailedPhotoPutChangesNothing ==
    [][(last'.op = "setPhoto") =>
          /\ (last'.status = 404) = ~Present(inventory, last'.id)
          /\ (last'.status = 400) = (Present(inventory, last'.id) /\ last'.file = Null)
          /\ (last'.status \in {400, 404}) =>
                /\ inventory' = inventory
                /\ dbFile' = dbFile
                /\ photos' = photos
                /\ unlinks' = unlinks
      ]_vars

\* a photo PUT that carried a file was refused for an unknown id while a
\* record holds a photo
PhotoPutOnUnknownId ==
    /\ last.op = "setPhoto" /\ last.status = 404
    /\ last.file # Null
    /\ Referenced(inventory) # {}

\* C18: an unlink that fails changes nothing but the list of started unlinks:
\* the records (the removal, or the new photo reference), the snapshot, which
\* still holds them, the files and the requests in flight stay, and the file
\* it was to remove is referenced by no record.
UnlinkFailureKeepsOperation ==
    [][(last'.op = "unlinkFailed") =>
          /\ inventory' = inventory
          /\ dbFile' = dbFile
          /\ Holds(dbFile', inventory')
          /\ photos' = photos
          /\ reqs' = reqs /\ sends' = sends
          /\ last'.file \notin Referenced(inventory')
      ]_vars

\* the unlink of a replaced photo failed: the old file stays, the record keeps
\* the new one
ReplaceSurvivedUnlinkFailure ==
    /\ last.op = "unlinkFailed"
    /\ last.file = 1 /\ 1 \in DOMAIN photos
    /\ Referenced(inventory) = {2}
    /\ Holds(dbFile, inventory)

\* C19: every record has a name that is neither empty nor blank.
NamesNeverBlank ==
    \A i \in DOMAIN inventory :
        \E k \in DOMAIN inventory[i].inventory_name :
            ~IsSpace(inventory[i].inventory_name[k])

\* position of the record with that id
Position(inv, id) == CHOOSE i \in DOMAIN inv : inv[i].id = id

\* C16: the listing shows the records in the order of the collection; in
\* every step the records that stay keep their relative order, and a record
\* that was not there before is the last one.
ListKeepsRegistrationOrder ==
    [][/\ (last'.op = "list") =>
             /\ Len(last'.body) = Len(inventory)
             /\ \A i \in DOMAIN inventory : last'.body[i] = dto(inventory[i])
       /\ \A i, j \in DOMAIN inventory' :
             (/\ i < j
              /\ Present(inventory, inventory'[i].id)
              /\ Present(inventory, inventory'[j].id))
             => Position(inventory, inventory'[i].id) < Position(inventory, inventory'[j].id)
       /\ \A i \in DOMAIN inventory' :
             ~Present(inventory, inventory'[i].id) => i = Len(inventory')
      ]_vars

\* the second of three records was deleted and the listing shows the first
\* before the third
ListedAfterDelete ==
    /\ last.op = "list"
    /\ Len(last.body) = 2
    /\ last.body[1].id = <<"1">>
    /\ last.body[2].id = <<"3">>

Mutating == {"register", "update", "delete", "setPhoto"}

Succeeded(r) == r.op \in Mutating /\ r.status \in {200, 201}

\* C12: after every mutating operation that answers success the snapshot
\* holds exactly the records in memory; the snapshot changes in no other
\* step than a write of a mutating operation, which leaves it whole or
\* unparsable; a restart loads the records the snapshot holds, and the
\* empty collection when the snapshot is missing or unparsable.
SnapshotFollowsMutations ==
    [][/\ Succeeded(last') => Holds(dbFile', inventory')
       /\ (dbFile' # dbFile) =>
             /\ last'.op \in Mutating
             /\ Succeeded(last') \/ (dbFile'.exists /\ ~dbFile'.closed)
       /\ (last'.op = "restart") =>
             /\ dbFile' = dbFile
             /\ IF dbFile.exists /\ dbFile.closed
                THEN Holds(dbFile, inventory')
                ELSE inventory' = <<>>
      ]_vars

\* a restart loaded two records from the snapshot after a write had failed
RestartedFromSnapshot ==
    /\ last.op = "restart"
    /\ faults = 1
    /\ Len(inventory) = 2
    /\ Holds(dbFile, inventory)

\* C17: a mutating operation whose write of the snapshot fails leaves the
\* records, their photo references, the photo files and the started unlinks
\* as they were, and memory and snapshot agree as before.
FailedSaveIsAtomic ==
    [][(last'.op \in Mutating /\ last'.status = 500) =>
          /\ inventory' = inventory
          /\ photos' = photos
          /\ unlinks' = unlinks
          /\ dbFile' = dbFile
      ]_vars

\* C13: whatever requests are between their upload stage and their handler
\* and whatever transfers and unlinks are in progress, every step changes
\* the records and the snapshot as the one request it answers does when run
\* alone on the current records: a successful register appends one record
\* with an id no present record has, a successful update rewrites one
\* record, a successful delete removes one, a successful photo PUT sets one
\* reference, the snapshot then holds the records, and any other step
\* leaves records and snapshot alone; the ids of the records stay distinct.
StepsAreSerial ==
    [][LET r == last'
           i == findIndex(inventory, r.id)
       IN  /\ UniqueIds(inventory) => UniqueIds(inventory')
           /\ Succeeded(r) => Holds(dbFile', inventory')
           /\ ~Succeeded(r) => (inventory' = inventory /\ dbFile' = dbFile)
           /\ (r.op = "register" /\ r.status = 201) =>
                 /\ ~Present(inventory, r.id)
                 /\ inventory' = Append(inventory,
                        [id |-> r.id, inventory_name |-> r.body.inventory_name,
                         description |-> r.body.description, photoFilename |-> r.file])
           /\ (r.op = "update" /\ r.status = 200) =>
                 /\ i # 0
                 /\ inventory' = [inventory EXCEPT
                        ![i].inventory_name =
                            IF "inventory_name" \in DOMAIN r.arg THEN r.arg.inventory_name ELSE @,
                        ![i].description =
                            IF "description" \in DOMAIN r.arg THEN r.arg.description ELSE @]
           /\ (r.op = "delete" /\ r.status = 200) =>
                 /\ i # 0
                 /\ inventory' = SubSeq(inventory, 1, i - 1) \o
                                  SubSeq(inventory, i + 1, Len(inventory))
           /\ (r.op = "setPhoto" /\ r.status = 200) =>
                 /\ i # 0
                 /\ inventory' = [inventory EXCEPT ![i].photoFilename = r.file]
      ]_vars

\* a register without a file was answered while another register had its
\* file stored and its handler still to run
RegisteredWhileAnotherUploaded ==
    /\ last.op = "register" /\ last.status = 201
    /\ last.file = Null
    /\ \E r \in reqs : r.route = "register" /\ r.file # Null
    /\ Len(inventory) = 2

====
